---- MODULE Spec2Model ----
(***************************************************************************)
(* The state-transition engine of the game in src/src/main.ts (latest      *)
(* variant, lines 575-1415): the reducers that the merged event stream     *)
(* folds over the State, and the order in which the timers deliver them.   *)
(*                                                                         *)
(* Units.  Lengths are whole pixels: a fractional draw of generateRandom   *)
(* is floored, everything else the code computes on positions is integer   *)
(* arithmetic on those draws.  A course entry's gapY and gapHeight are     *)
(* hundredths of the playfield height (0.5 in the csv is 50), its delay    *)
(* is whole seconds.  Time is milliseconds.                                *)
(***************************************************************************)
EXTENDS Integers, Sequences, FiniteSets, TLC

(***************************************************************************)
(* Constants of main.ts                                                    *)
(***************************************************************************)
CANVAS_WIDTH == 600
CANVAS_HEIGHT == 400
BIRB_WIDTH == 42
BIRB_HEIGHT == 30
PIPE_WIDTH == 50
TICK_RATE_MS == 50
GRAVITY == 1
GROUND == 400
CEILING == 0
SEED == 1234
JUMP_SPEED == -5
PIPE_SPEED == 8
\* Viewport.CANVAS_WIDTH * 0.3 - Birb.WIDTH / 2
BIRD_X == (CANVAS_WIDTH * 3) \div 10 - BIRB_WIDTH \div 2

(***************************************************************************)
(* RNG.  Seeds are below 2^31; a * seed does not fit a 53-bit mantissa,    *)
(* so the code's hash is the product rounded to a double (ties to even),   *)
(* plus c rounded again, modulo 2^31.  Numbers are kept as five base-2^15  *)
(* limbs, least significant first.                                         *)
(***************************************************************************)
B15 == 2 ^ 15
RNG_a == <<20077, 908, 1>>      \* 1103515245 = 1 * 2^30 + 908 * 2^15 + 20077
RNG_c == 12345

Pow2(k) == 2 ^ k

\* limbs of seed + inc, for 0 <= seed < 2^31 and inc in {0, 1}
SeedLimbs(seed, inc) ==
    LET l0 == (seed % B15) + inc
        l1 == ((seed \div B15) % B15) + (l0 \div B15)
        l2 == (seed \div (B15 * B15)) + (l1 \div B15)
    IN  <<l0 % B15, l1 % B15, l2>>

\* carry propagation over five limbs
Carry(c) ==
    LET p0 == c[1]
        p1 == c[2] + (p0 \div B15)
        p2 == c[3] + (p1 \div B15)
        p3 == c[4] + (p2 \div B15)
        p4 == c[5] + (p3 \div B15)
    IN  <<p0 % B15, p1 % B15, p2 % B15, p3 % B15, p4>>

BitsOf(n) == IF n = 0 THEN 0 ELSE CHOOSE b \in 1..16 : Pow2(b - 1) <= n /\ n < Pow2(b)

TopLimb(p) ==
    IF p[5] # 0 THEN 5 ELSE IF p[4] # 0 THEN 4 ELSE IF p[3] # 0 THEN 3
    ELSE IF p[2] # 0 THEN 2 ELSE 1

BitLenAt(p, top) == 15 * (top - 1) + BitsOf(p[top])

BitLen(p) == BitLenAt(p, TopLimb(p))

\* drop the low k bits r of p, rounding to nearest, ties to even
RoundAt(p, k, r) ==
    IF r > Pow2(k - 1) \/ (r = Pow2(k - 1) /\ ((p[1] \div Pow2(k)) % 2) = 1)
    THEN Carry(<<p[1] - r + Pow2(k), p[2], p[3], p[4], p[5]>>)
    ELSE <<p[1] - r, p[2], p[3], p[4], p[5]>>

\* keep 53 significant bits (the discarded bits lie in limb 0)
RoundBits(p, k) == IF k <= 0 THEN p ELSE RoundAt(p, k, p[1] % Pow2(k))

\* round to the nearest double
RoundDouble(p) == RoundBits(p, BitLen(p) - 53)

\* RNG.a * seed as exact limbs
MulA(sl) ==
    Carry(<<RNG_a[1] * sl[1],
            RNG_a[1] * sl[2] + RNG_a[2] * sl[1],
            RNG_a[1] * sl[3] + RNG_a[2] * sl[2] + RNG_a[3] * sl[1],
            RNG_a[2] * sl[3] + RNG_a[3] * sl[2],
            RNG_a[3] * sl[3]>>)

AddC(p) == Carry(<<p[1] + RNG_c, p[2], p[3], p[4], p[5]>>)

\* p % RNG.m
ModM(p) == p[1] + p[2] * B15 + (p[3] % 2) * (B15 * B15)

\* RNG.hash(seed + inc) = (RNG.a * seed + RNG.c) % RNG.m
\* (each intermediate result is bound to a value before the next step uses it)
HashInc(seed, inc) ==
    CHOOSE h \in {ModM(r) : r \in
                 {RoundDouble(q) : q \in
                     {AddC(m) : m \in
                         {RoundDouble(n) : n \in
                             {MulA(sl) : sl \in {SeedLimbs(seed, inc)}}}}}} : TRUE

hash(seed) == HashInc(seed, 0)

\* floor(h * d / (2^31 - 1)) for h * d = hi * 2^31 + rem = hi * (2^31 - 1) + (hi + rem)
QuotAt(hi, rem) == IF rem >= 2147483647 - hi THEN hi + 1 ELSE hi

Quot(t, lo) == QuotAt(t \div B15, (t % B15) * 65536 + lo)

\* d is at most 550, so the partial products fit
MulDivM1(h, d) == Quot((h \div 65536) * d + (((h % 65536) * d) \div 65536), ((h % 65536) * d) % 65536)

\* generateRandom(a, b, seed + inc) = a + hash * (b - a) / (m - 1), floored to a
\* whole pixel
\* RNG.scale(h) = 2 * h / (m - 1) - 1, as its numerator over m - 1
scaleNum(h) == h - (2147483647 - h)

generateRandomInc_unhalved(a, b, seed, inc) ==
    CHOOSE v \in {a + 2 * MulDivM1(h, b - a) - ((b - a) \div 2) :
                     h \in {HashInc(seed, inc)}} : TRUE

generateRandomInc(a, b, seed, inc) ==
    CHOOSE v \in {a + MulDivM1(h, b - a) : h \in {HashInc(seed, inc)}} : TRUE

generateRandom(a, b, seed) == generateRandomInc(a, b, seed, 0)

(***************************************************************************)
(* Numbers that may be NaN.  Number() of a malformed csv field is NaN; it  *)
(* is kept as a reserved value: arithmetic on it gives NaN, every          *)
(* comparison with it (===, >=, <=, >) is false.                           *)
(***************************************************************************)
NaN == -1000000
IsNaN(a) == a = NaN
Plus(a, b) == IF IsNaN(a) \/ IsNaN(b) THEN NaN ELSE a + b
Minus(a, b) == IF IsNaN(a) \/ IsNaN(b) THEN NaN ELSE a - b
Geq(a, b) == ~IsNaN(a) /\ ~IsNaN(b) /\ a >= b
Leq(a, b) == ~IsNaN(a) /\ ~IsNaN(b) /\ a <= b
StrictEq(a, b) == ~IsNaN(a) /\ ~IsNaN(b) /\ a = b

(***************************************************************************)
(* Geometry                                                                *)
(***************************************************************************)
createBox(x, y, width, height) == [x |-> x, y |-> y, width |-> width, height |-> height]

isOverlap(box1, box2) ==
    LET box1Right  == Plus(box1.x, box1.width)
        box1Bottom == Plus(box1.y, box1.height)
        box2Right  == Plus(box2.x, box2.width)
        box2Bottom == Plus(box2.y, box2.height)
        result == \/ Geq(box1.x, Minus(box2Right, 15))
                  \/ Leq(box1Right, Plus(box2.x, 15))
                  \/ Geq(box1.y, Minus(box2Bottom, 5))
                  \/ Leq(box1Bottom, Plus(box2.y, 15))
    IN  ~result

\* (p.gapY - p.gapHeight / 2) * CANVAS_HEIGHT, with gapY, gapHeight in hundredths
TopHeight(p) ==
    IF IsNaN(p.gapY) \/ IsNaN(p.gapHeight) THEN NaN
    ELSE ((2 * p.gapY - p.gapHeight) * CANVAS_HEIGHT) \div 200
\* (p.gapY + p.gapHeight / 2) * CANVAS_HEIGHT
BottomY(p) ==
    IF IsNaN(p.gapY) \/ IsNaN(p.gapHeight) THEN NaN
    ELSE ((2 * p.gapY + p.gapHeight) * CANVAS_HEIGHT) \div 200

(***************************************************************************)
(* State                                                                   *)
(***************************************************************************)
initialState ==
    [gameEnd |-> FALSE, gameStart |-> FALSE, gamePause |-> FALSE,
     position |-> GROUND \div 2, velocity |-> 0, lives |-> 3, score |-> 0,
     seed |-> SEED, resume |-> FALSE, fullScore |-> 0,
     pipes |-> <<>>, all_pipes |-> <<>>, time |-> 0, pause |-> FALSE,
     starx |-> -100, stary |-> -100, skullx |-> -100, skully |-> -100,
     ghosts |-> <<>>, run |-> 1]

Weight(p) == IF p.special THEN 2 ELSE 1

RECURSIVE SumWeights(_)
SumWeights(seq) == IF seq = <<>> THEN 0 ELSE Weight(Head(seq)) + SumWeights(Tail(seq))

Abs(n) == IF n < 0 THEN -n ELSE n

(***************************************************************************)
(* tick                                                                    *)
(***************************************************************************)
birdBox(s) == createBox(BIRD_X, s.position, BIRB_WIDTH, BIRB_HEIGHT)

hitTopPipe(s) ==
    \E i \in 1..Len(s.pipes) :
        isOverlap(birdBox(s), createBox(s.pipes[i].x, 0, PIPE_WIDTH, TopHeight(s.pipes[i])))

hitBottomPipe(s) ==
    \E i \in 1..Len(s.pipes) :
        isOverlap(birdBox(s),
                  createBox(s.pipes[i].x, BottomY(s.pipes[i]), PIPE_WIDTH,
                            Minus(CANVAS_HEIGHT, BottomY(s.pipes[i]))))

hit_top(s) == hitTopPipe(s) \/ s.position <= CEILING
hit_bottom_strict(s) == hitBottomPipe(s) \/ s.position > GROUND

hit_bottom(s) == hitBottomPipe(s) \/ s.position >= GROUND

normal_inputSeeded(s) ==
    [s EXCEPT !.position = s.position + s.velocity,
              !.velocity = s.velocity + GRAVITY,
              !.seed = HashInc(s.seed, IF s.velocity < 0 THEN 1 ELSE 0),
              !.time = s.time + TICK_RATE_MS,
              !.resume = FALSE]

normal_keepsResume(s) ==
    [s EXCEPT !.position = s.position + s.velocity,
              !.velocity = s.velocity + GRAVITY,
              !.seed = hash(s.seed),
              !.time = s.time + TICK_RATE_MS]

normal(s) ==
    [s EXCEPT !.position = s.position + s.velocity,
              !.velocity = s.velocity + GRAVITY,
              !.seed = hash(s.seed),
              !.time = s.time + TICK_RATE_MS,
              !.resume = FALSE]

hit_bottom_state_noClock(s) ==
    [s EXCEPT !.lives = s.lives - 1,
              !.seed = hash(s.seed),
              !.resume = TRUE,
              !.velocity = generateRandom(-10, -3, s.seed)]

hit_bottom_state(s) ==
    [s EXCEPT !.lives = s.lives - 1,
              !.seed = hash(s.seed),
              !.resume = TRUE,
              !.velocity = generateRandom(-10, -3, s.seed),
              !.time = s.time + TICK_RATE_MS]

hit_top_state_perSurface(s) ==
    [s EXCEPT !.lives = s.lives - (IF hit_bottom(s) THEN 2 ELSE 1),
              !.seed = hash(s.seed),
              !.resume = TRUE,
              !.velocity = generateRandom(3, 10, s.seed),
              !.time = s.time + TICK_RATE_MS]

hit_top_state_upward(s) ==
    [s EXCEPT !.lives = s.lives - 1,
              !.seed = hash(s.seed),
              !.resume = TRUE,
              !.velocity = generateRandom(-10, -3, s.seed),
              !.time = s.time + TICK_RATE_MS]

hit_top_state(s) ==
    [s EXCEPT !.lives = s.lives - 1,
              !.seed = hash(s.seed),
              !.resume = TRUE,
              !.velocity = generateRandom(3, 10, s.seed),
              !.time = s.time + TICK_RATE_MS]

won_needsClearScreen(s) == s.gameStart /\ s.score = s.fullScore /\ Len(s.pipes) = 0

won_anyScore(s) == s.gameStart /\ s.score > 0

\* "Game win when full score is got"
won(s) == s.gameStart /\ s.score = s.fullScore

tick_bottomFirst(s) ==
    IF ~s.gameStart THEN [s EXCEPT !.gameStart = TRUE]
    ELSE IF won(s) THEN [s EXCEPT !.gameEnd = TRUE]
    ELSE IF s.gamePause \/ s.gameEnd THEN s
    ELSE IF hit_bottom(s)
         THEN IF ~s.resume THEN hit_bottom_state(s)
              ELSE [normal(s) EXCEPT !.resume = TRUE]
    ELSE IF hit_top(s)
         THEN IF ~s.resume THEN hit_top_state(s)
              ELSE [normal(s) EXCEPT !.resume = TRUE]
    ELSE normal(s)

tick(s) ==
    IF ~s.gameStart THEN [s EXCEPT !.gameStart = TRUE]
    ELSE IF won(s) THEN [s EXCEPT !.gameEnd = TRUE]
    ELSE IF s.gamePause \/ s.gameEnd THEN s
    ELSE IF hit_top(s)
         THEN IF ~s.resume THEN hit_top_state(s)
              ELSE [normal(s) EXCEPT !.resume = TRUE]
    ELSE IF hit_bottom(s)
         THEN IF ~s.resume THEN hit_bottom_state(s)
              ELSE [normal(s) EXCEPT !.resume = TRUE]
    ELSE normal(s)

(***************************************************************************)
(* Course: pipe_array, parsed once from the csv                            *)
(***************************************************************************)
Entry(gap_y, gap_height, delay) ==
    [gapY |-> gap_y, gapHeight |-> gap_height, delay |-> delay,
     special |-> ~IsNaN(gap_y) /\ gap_y > 75]

\* pipe_array.reduce((sum, pipe) => sum + (pipe.special ? 2 : 1), 0)
courseWeight_count(pipe_array) == Len(pipe_array)

courseWeight(pipe_array) == SumWeights(pipe_array)

(***************************************************************************)
(* pipes$: the spawn reducer of one course entry                           *)
(***************************************************************************)
pipeExists_onScreen(entry, s) ==
    \E i \in 1..Len(s.pipes) :
        /\ StrictEq(s.pipes[i].gapY, entry.gapY)
        /\ StrictEq(s.pipes[i].gapHeight, entry.gapHeight)
        /\ StrictEq(s.pipes[i].delay, entry.delay)

pipeExists(entry, s) ==
    \E i \in 1..Len(s.all_pipes) :
        /\ StrictEq(s.all_pipes[i].gapY, entry.gapY)
        /\ StrictEq(s.all_pipes[i].gapHeight, entry.gapHeight)
        /\ StrictEq(s.all_pipes[i].delay, entry.delay)

newPipe(entry) ==
    [gapY |-> entry.gapY, gapHeight |-> entry.gapHeight, delay |-> entry.delay,
     x |-> CANVAS_WIDTH, special |-> entry.special]

delayReached_late(entry, s) == ~IsNaN(entry.delay) /\ s.time >= (entry.delay + 1) * 1000

delayReached(entry, s) == ~IsNaN(entry.delay) /\ s.time >= entry.delay * 1000

spawn_ignoresPause(pipe_array, entry, s) ==
    IF s.gameEnd THEN s
    ELSE IF s.fullScore = 0 THEN [s EXCEPT !.fullScore = courseWeight(pipe_array)]
    ELSE IF delayReached(entry, s) /\ ~pipeExists(entry, s)
         THEN [s EXCEPT !.all_pipes = Append(s.all_pipes, newPipe(entry))]
    ELSE s

spawn(pipe_array, entry, s) ==
    IF s.gamePause \/ s.gameEnd THEN s
    ELSE IF s.fullScore = 0 THEN [s EXCEPT !.fullScore = courseWeight(pipe_array)]
    ELSE IF delayReached(entry, s) /\ ~pipeExists(entry, s)
         THEN [s EXCEPT !.all_pipes = Append(s.all_pipes, newPipe(entry))]
    ELSE s

(***************************************************************************)
(* movePipes$                                                              *)
(***************************************************************************)
updatedPipes_visibleOnly(s) ==
    [i \in 1..Len(s.all_pipes) |->
        IF s.all_pipes[i].x > -PIPE_WIDTH
        THEN [s.all_pipes[i] EXCEPT !.x = s.all_pipes[i].x - PIPE_SPEED]
        ELSE s.all_pipes[i]]

updatedPipes(s) ==
    [i \in 1..Len(s.all_pipes) |-> [s.all_pipes[i] EXCEPT !.x = s.all_pipes[i].x - PIPE_SPEED]]

passed_onScreenOnly(s, p) == p.x - PIPE_WIDTH < s.score /\ p.x > -PIPE_WIDTH

passed(s, p) == p.x - PIPE_WIDTH < s.score

newScore_onScreen(s) ==
    IF ~s.gameEnd
    THEN SumWeights(SelectSeq(s.pipes, LAMBDA p : passed(s, p)))
    ELSE s.score

newScore(s) ==
    IF ~s.gameEnd
    THEN SumWeights(SelectSeq(s.all_pipes, LAMBDA p : passed(s, p)))
    ELSE s.score

onScreen(p) == p.x > -PIPE_WIDTH

moveFrozen_never(s) == FALSE

moveFrozen(s) == s.gamePause

movePipes(s) ==
    IF moveFrozen(s) THEN s
    ELSE [s EXCEPT !.all_pipes = updatedPipes(s),
                   !.pipes = SelectSeq(updatedPipes(s), onScreen),
                   !.score = newScore(s)]

(***************************************************************************)
(* ghost$: the trail of bird samples, kept across restarts                 *)
(***************************************************************************)
playing(s) == s.gameStart /\ ~s.gameEnd /\ ~s.gamePause

ghost_overwrites(s) ==
    IF ~playing(s) THEN s
    ELSE [s EXCEPT !.ghosts = <<[time |-> s.time, y |-> s.position, run |-> s.run]>>]

ghost(s) ==
    IF ~playing(s) THEN s
    ELSE [s EXCEPT !.ghosts = Append(s.ghosts,
                                     [time |-> s.time, y |-> s.position, run |-> s.run])]

(***************************************************************************)
(* star$ and skull$                                                        *)
(***************************************************************************)
near(ex, ey, s) == Abs(ey - s.position) <= 10 /\ Abs(ex - BIRD_X) <= 10

star_staysInPlace(s) ==
    IF ~playing(s) THEN s
    ELSE IF ~s.resume /\ near(s.starx, s.stary, s)
         THEN [s EXCEPT !.lives = s.lives + 1]
    ELSE IF s.time % 10000 = 3000
         THEN [s EXCEPT !.starx = generateRandom(50, CANVAS_WIDTH, s.seed),
                        !.stary = generateRandomInc(50, CANVAS_HEIGHT, s.seed, 1)]
    ELSE [s EXCEPT !.starx = s.starx - 10]

star_advancesSeed(s) ==
    IF ~playing(s) THEN s
    ELSE IF ~s.resume /\ near(s.starx, s.stary, s)
         THEN [s EXCEPT !.lives = s.lives + 1, !.starx = -100]
    ELSE IF s.time % 10000 = 3000
         THEN [s EXCEPT !.starx = generateRandom(50, CANVAS_WIDTH, s.seed),
                        !.stary = generateRandomInc(50, CANVAS_HEIGHT, s.seed, 1),
                        !.seed = hash(s.seed)]
    ELSE [s EXCEPT !.starx = s.starx - 10]

star(s) ==
    IF ~playing(s) THEN s
    ELSE IF ~s.resume /\ near(s.starx, s.stary, s)
         THEN [s EXCEPT !.lives = s.lives + 1, !.starx = -100]
    ELSE IF s.time % 10000 = 3000
         THEN [s EXCEPT !.starx = generateRandom(50, CANVAS_WIDTH, s.seed),
                        !.stary = generateRandomInc(50, CANVAS_HEIGHT, s.seed, 1)]
    ELSE [s EXCEPT !.starx = s.starx - 10]

skull_ignoresPause(s) ==
    IF ~s.gameStart \/ s.gameEnd THEN s
    ELSE IF ~s.resume /\ near(s.skullx, s.skully, s)
         THEN [s EXCEPT !.resume = TRUE, !.lives = 0, !.skullx = -100]
    ELSE IF s.time % 10000 = 2000
         THEN [s EXCEPT !.skullx = generateRandom(50, CANVAS_WIDTH, s.seed),
                        !.skully = generateRandomInc(50, CANVAS_HEIGHT, s.seed, 1)]
    ELSE [s EXCEPT !.skullx = s.skullx - 10]

skull(s) ==
    IF ~playing(s) THEN s
    ELSE IF ~s.resume /\ near(s.skullx, s.skully, s)
         THEN [s EXCEPT !.resume = TRUE, !.lives = 0, !.skullx = -100]
    ELSE IF s.time % 10000 = 2000
         THEN [s EXCEPT !.skullx = generateRandom(50, CANVAS_WIDTH, s.seed),
                        !.skully = generateRandomInc(50, CANVAS_HEIGHT, s.seed, 1)]
    ELSE [s EXCEPT !.skullx = s.skullx - 10]

(***************************************************************************)
(* Key reducers                                                            *)
(***************************************************************************)
canJump_whenEnded(s) == ~s.resume /\ s.gameEnd /\ ~s.pause

canJump(s) == ~s.resume /\ ~s.gameEnd /\ ~s.pause

jump(s) ==
    IF canJump(s)
    THEN [s EXCEPT !.velocity = JUMP_SPEED]
    ELSE s

pauseToggle_whilePlaying(s) == IF s.gameEnd THEN s ELSE [s EXCEPT !.gamePause = ~s.gamePause]

pauseToggle(s) == [s EXCEPT !.gamePause = ~s.gamePause]

restart_dropTrail(s) == [initialState EXCEPT !.run = s.run + 1]

restart_keepTarget(s) ==
    [initialState EXCEPT !.run = s.run + 1, !.ghosts = s.ghosts, !.fullScore = s.fullScore]

restart(s) == [initialState EXCEPT !.run = s.run + 1, !.ghosts = s.ghosts]

(***************************************************************************)
(* Bounds of the model                                                     *)
(***************************************************************************)
MaxTicks == 104       \* simulated ticks of one run
MaxPauses == 2        \* P presses
MaxRestarts == 1      \* R presses
MaxPipeLeft == 200    \* pipes are followed down to x = -MaxPipeLeft

MaxTime == MaxTicks * TICK_RATE_MS

(***************************************************************************)
(* Inputs: the course and the times (elapsed game time) at which the       *)
(* player presses Space, P and R.  While Space is held the keyboard        *)
(* repeats the press, one per tick period.                                 *)
(***************************************************************************)
Range(from, to) == {t \in from..to : t % TICK_RATE_MS = 0}

Scenario(course, jumps, pauses, restarts) ==
    [pipe_array |-> course, jumps |-> jumps, pauses |-> pauses, restarts |-> restarts]

CourseOne == <<Entry(30, 30, 0)>>
CourseTall == <<Entry(90, 10, 0)>>
CourseTwo == <<Entry(90, 10, 0), Entry(30, 30, 1)>>
\* a row whose second field is not a number
CourseBad == <<Entry(50, NaN, 0)>>
\* a gap of 8 pixels, lower than the margins of isOverlap
CourseNarrow == <<Entry(50, 2, 0)>>
\* an obstacle that is due after the horizon: free flight
CourseLate == <<Entry(30, 30, 10)>>
\* three obstacles with gaps wide enough to fly through
CourseThree == <<Entry(50, 100, 0), Entry(50, 96, 0), Entry(50, 92, 1)>>
\* two rows with the same three fields
CourseTwin == <<Entry(30, 30, 0), Entry(30, 30, 0)>>

CourseBadPair == <<Entry(50, NaN, 0), Entry(40, NaN, 0), Entry(90, 10, 1)>>
Scenarios ==
    { Scenario(CourseOne, {0}, {0}, {1500}),
      Scenario(CourseTall, Range(2200, 3000), {2500}, {}),
      Scenario(CourseTwo, {}, {}, {}),
      Scenario(CourseOne, Range(850, 3400), {}, {}),
      Scenario(CourseBad, {}, {}, {}),
      Scenario(CourseTwin, {}, {}, {}),
      Scenario(CourseNarrow, {550 + 400 * k : k \in 0..5}, {}, {}),
      Scenario(CourseLate, {400 + 550 * k : k \in 0..8}, {}, {}),
      Scenario(CourseThree, {400 + 550 * k : k \in 0..8} \cup {4450}, {}, {}),
      Scenario(CourseLate, {250, 300}, {}, {}),
      Scenario(CourseLate, Range(0, 1950), {}, {}),
      Scenario(CourseLate, {50}, {}, {}),
      Scenario(CourseBadPair, {}, {}, {}) }

(***************************************************************************)
(* The fold: scan over merge(jump$, tick$, ...pipes$, movePipes$, pause$,  *)
(* star$, skull$, ghost$, restart$).  The interval timers share one period *)
(* and fire in subscription order; pc is the timer that fires next.        *)
(* prev and last record the state the last reducer was applied to and      *)
(* which reducer it was; scored is the set of injected pipes (indices of   *)
(* all_pipes) that the last scoring step counted.                          *)
(***************************************************************************)
VARIABLES s, pipe_array, pc, script, jumped, presses, prev, last, scored

vars == <<s, pipe_array, pc, script, jumped, presses, prev, last, scored>>

NumTimers == Len(pipe_array) + 5
TickSlot == 1
SpawnSlots == 2..(Len(pipe_array) + 1)
MoveSlot == Len(pipe_array) + 2
StarSlot == Len(pipe_array) + 3
SkullSlot == Len(pipe_array) + 4
GhostSlot == Len(pipe_array) + 5

NextSlot == IF pc = NumTimers THEN 1 ELSE pc + 1

Op(name, arg) == [op |-> name, arg |-> arg]

Init ==
    /\ s = initialState
    /\ \E sc \in Scenarios :
          /\ pipe_array = sc.pipe_array
          /\ script = [jumps |-> sc.jumps, pauses |-> sc.pauses, restarts |-> sc.restarts]
    /\ pc = TickSlot
    /\ jumped = FALSE
    /\ presses = [pause |-> 0, restart |-> 0]
    /\ prev = initialState
    /\ last = Op("init", 0)
    /\ scored = {}

Apply(next, name, arg) ==
    /\ s' = next
    /\ prev' = s
    /\ last' = Op(name, arg)
    /\ UNCHANGED <<pipe_array, script>>

Timer(slot, next, name, arg) ==
    /\ pc = slot
    /\ pc' = NextSlot
    /\ Apply(next, name, arg)
    /\ UNCHANGED presses

\* tick$; a Space press of the current period reaches the fold before the tick
Tick ==
    /\ s.time < MaxTime
    /\ s.time \in script.jumps => jumped
    /\ Timer(TickSlot, tick(s), "tick", 0)
    /\ jumped' = FALSE
    /\ UNCHANGED scored

Spawn ==
    /\ pc \in SpawnSlots
    /\ Timer(pc, spawn(pipe_array, pipe_array[pc - 1], s), "spawn", pc - 1)
    /\ UNCHANGED <<jumped, scored>>

countedPipes(st) == {i \in 1..Len(st.all_pipes) : passed(st, st.all_pipes[i])}

MovePipes ==
    /\ \A i \in 1..Len(s.all_pipes) : s.all_pipes[i].x > -MaxPipeLeft
    /\ Timer(MoveSlot, movePipes(s), "move", 0)
    /\ scored' = IF moveFrozen(s) \/ s.gameEnd THEN scored ELSE countedPipes(s)
    /\ UNCHANGED jumped

Star ==
    /\ Timer(StarSlot, star(s), "star", 0)
    /\ UNCHANGED <<jumped, scored>>

Skull ==
    /\ Timer(SkullSlot, skull(s), "skull", 0)
    /\ UNCHANGED <<jumped, scored>>

Ghost ==
    /\ Timer(GhostSlot, ghost(s), "ghost", 0)
    /\ UNCHANGED <<jumped, scored>>

Jump ==
    /\ s.time \in script.jumps
    /\ ~jumped
    /\ Apply(jump(s), "jump", 0)
    /\ jumped' = TRUE
    /\ UNCHANGED <<pc, presses, scored>>

Pause ==
    /\ s.time \in script.pauses
    /\ presses.pause < MaxPauses
    /\ Apply(pauseToggle(s), "pause", 0)
    /\ presses' = [presses EXCEPT !.pause = @ + 1]
    /\ UNCHANGED <<pc, jumped, scored>>

Restart ==
    /\ s.time \in script.restarts
    /\ presses.restart < MaxRestarts
    /\ Apply(restart(s), "restart", 0)
    /\ presses' = [presses EXCEPT !.restart = @ + 1]
    /\ jumped' = FALSE
    /\ scored' = {}
    /\ UNCHANGED pc

Next == Tick \/ Spawn \/ MovePipes \/ Star \/ Skull \/ Ghost \/ Jump \/ Pause \/ Restart

Spec == Init /\ [][Next]_vars

\* The interval timers keep firing for as long as the page is open and a held
\* Space key keeps repeating; the P and R presses of a run are finitely many,
\* so the fold keeps taking steps for as long as one is enabled.
LiveSpec == Spec /\ WF_vars(Next)

(***************************************************************************)
(* Claims                                                                  *)
(***************************************************************************)

\* C1: from a started, unpaused, not-ended, not-invulnerable state with
\* lives = 1, a tick that registers a new top-pipe collision yields lives = 0,
\* and the very next tick yields ended = TRUE.
C1_LossCondition ==
    (/\ last.op = "tick"
     /\ playing(prev) /\ ~prev.resume /\ prev.lives = 1
     /\ ~won(prev) /\ hitTopPipe(prev))
    => (s.lives = 0 /\ tick(s).gameEnd)

\* C2: lives >= 0 in every reachable state.
C2_LivesNonNegative == s.lives >= 0

\* C3 as stated: whenever a tick newly sets ended on the win path, the game is
\* started, the score has met the target and no obstacle is left on screen.
C3_WinOnlyWhenClear ==
    (last.op = "tick" /\ ~prev.gameEnd /\ s.gameEnd)
    => (prev.gameStart /\ prev.score >= prev.fullScore /\ Len(prev.pipes) = 0)

\* C3 as amended: whenever a tick newly sets ended, the game is started and the
\* score equals the target score (obstacles may still be on screen).
C3_WinOnlyAtTarget ==
    (last.op = "tick" /\ ~prev.gameEnd /\ s.gameEnd)
    => (prev.gameStart /\ prev.score = prev.fullScore)

C3_Witness ==
    /\ last.op = "tick" /\ ~prev.gameEnd /\ s.gameEnd
    /\ prev.fullScore > 0 /\ Len(prev.pipes) > 0

\* C4: when the avatar is within the radius of the hazard while playing and
\* not invulnerable, the hazard reducer sets lives to 0 and moves the hazard
\* off-screen without touching velocity, and the following tick ends the game.
C4_HazardEndsGame ==
    (/\ last.op = "skull"
     /\ playing(prev) /\ ~prev.resume /\ near(prev.skullx, prev.skully, prev))
    => (/\ s.lives = 0 /\ s.skullx = -100 /\ s.velocity = prev.velocity
        /\ tick(s).gameEnd)

\* C5: jump sets velocity to the jump speed only when the state is started,
\* not ended, not paused and not invulnerable, returns the state unchanged
\* otherwise, and never changes another field.
C5_JumpOnlyWhilePlaying ==
    last.op = "jump"
    => s = IF playing(prev) /\ ~prev.resume
           THEN [prev EXCEPT !.velocity = JUMP_SPEED]
           ELSE prev

\* C6 as stated: the motion and scoring reducer is a no-op whenever the state
\* is paused or ended: obstacle positions, active sequence and score unchanged.
C6_MoveFrozenWhenPausedOrEnded ==
    (last.op = "move" /\ (prev.gamePause \/ prev.gameEnd))
    => (/\ s.all_pipes = prev.all_pipes
        /\ s.pipes = prev.pipes
        /\ s.score = prev.score)

\* C6 as amended: the motion and scoring reducer returns the state unchanged
\* whenever the state is paused; on an ended, unpaused state it leaves score
\* unchanged but still moves every injected obstacle left by the pipe speed.
C6_MoveFrozenWhenPaused ==
    last.op = "move"
    => (/\ prev.gamePause => s = prev
        /\ prev.gameEnd => s.score = prev.score
        /\ (prev.gameEnd /\ ~prev.gamePause) =>
              /\ Len(s.all_pipes) = Len(prev.all_pipes)
              /\ \A i \in 1..Len(prev.all_pipes) :
                    s.all_pipes[i].x = prev.all_pipes[i].x - PIPE_SPEED)

C6_Witness ==
    /\ last.op = "move" /\ prev.gamePause /\ prev.gameStart /\ ~prev.gameEnd
    /\ Len(prev.all_pipes) > 0

\* C7: within a run score never decreases, whichever reducer is applied.
C7_ScoreNonDecreasing ==
    last.op \notin {"init", "restart"} => s.score >= prev.score

C7_Witness == last.op = "move" /\ prev.score > 0 /\ s.score > prev.score

\* C8: a motion step adds an obstacle's weight to score exactly at the step at
\* which the obstacle's trailing edge (x + pipe width) crosses the avatar's lane.
crossesLane(p) ==
    /\ p.x + PIPE_WIDTH >= BIRD_X
    /\ p.x - PIPE_SPEED + PIPE_WIDTH < BIRD_X

C8_ScoredWhenLaneCrossed ==
    (last.op = "move" /\ ~prev.gamePause /\ ~prev.gameEnd)
    => s.score = prev.score + SumWeights(SelectSeq(prev.all_pipes, crossesLane))

\* C9: score is the sum of the weights of a set of distinct injected obstacles
\* (2 for a special one, 1 otherwise), and an obstacle that has been counted
\* stays counted for the rest of the run.
RECURSIVE SumScored(_, _)
SumScored(pipes, idx) ==
    IF idx = {} THEN 0
    ELSE LET i == CHOOSE j \in idx : TRUE
         IN  Weight(pipes[i]) + SumScored(pipes, idx \ {i})

C9_ScoredOnceAndForAll ==
    [][/\ scored' \subseteq 1..Len(s'.all_pipes)
       /\ s'.score = SumScored(s'.all_pipes, scored')
       /\ last'.op # "restart" => scored \subseteq scored']_vars

C9_Witness == Cardinality(scored) = 2 /\ s.score = 3 /\ last.op = "move"

\* C10 as stated: the injected list never holds two obstacles of one course
\* entry, and firing an entry's spawn reducer after its obstacle was injected
\* returns the state unchanged.
sameEntry(p, e) == p.gapY = e.gapY /\ p.gapHeight = e.gapHeight /\ p.delay = e.delay

injected(e, st) == \E i \in 1..Len(st.all_pipes) : sameEntry(st.all_pipes[i], e)

atMostOnce(e, st) ==
    \A i, j \in 1..Len(st.all_pipes) :
        (sameEntry(st.all_pipes[i], e) /\ sameEntry(st.all_pipes[j], e)) => i = j

C10_SpawnIdempotent ==
    \A k \in 1..Len(pipe_array) :
        /\ atMostOnce(pipe_array[k], s)
        /\ (last.op = "spawn" /\ last.arg = k /\ injected(pipe_array[k], prev)) => s = prev

\* C10 as amended: the same, for every course entry whose gap-center and
\* gap-height are numbers.
numericGap(e) == ~IsNaN(e.gapY) /\ ~IsNaN(e.gapHeight)

C10_SpawnIdempotentNumeric ==
    \A k \in 1..Len(pipe_array) :
        numericGap(pipe_array[k]) =>
            /\ atMostOnce(pipe_array[k], s)
            /\ (last.op = "spawn" /\ last.arg = k /\ injected(pipe_array[k], prev))
                  => s = prev

C10_Witness ==
    /\ last.op = "spawn" /\ numericGap(pipe_array[last.arg])
    /\ injected(pipe_array[last.arg], prev)
    /\ ~prev.gamePause /\ ~prev.gameEnd
    /\ prev.time >= pipe_array[last.arg].delay * 1000

C12_RestartResets ==
    last.op = "restart"
    => (/\ s = [initialState EXCEPT !.run = prev.run + 1, !.ghosts = s.ghosts]
        /\ Len(s.ghosts) >= Len(prev.ghosts)
        /\ SubSeq(s.ghosts, 1, Len(prev.ghosts)) = prev.ghosts)

C12_Witness ==
    /\ last.op = "restart" /\ prev.gameStart /\ prev.time > 0
    /\ Len(prev.ghosts) > 0 /\ Len(prev.all_pipes) > 0 /\ prev.fullScore > 0

\* C13 as stated: the target score of the state a restart produces equals the
\* target score of the state the restart was applied to.
C13_RestartKeepsTarget == last.op = "restart" => s.fullScore = prev.fullScore

\* C13 as amended: restart resets the target score to 0, and the first spawn
\* firing applied to a running state with target score 0 derives it again from
\* the course, so the target score is always 0 or the course's total weight.
C13_TargetRederived ==
    /\ last.op = "restart" => s.fullScore = 0
    /\ (last.op = "spawn" /\ prev.fullScore = 0 /\ ~prev.gamePause /\ ~prev.gameEnd)
          => s.fullScore = courseWeight(pipe_array)
    /\ s.fullScore \in {0, courseWeight(pipe_array)}

C13_Witness ==
    /\ last.op = "spawn" /\ prev.run > 1 /\ prev.fullScore = 0
    /\ s.fullScore = courseWeight(pipe_array) /\ s.fullScore > 0

\* C14: a restart begins a fresh fold whose timers are subscribed anew, so the
\* first timer reducer applied to the restarted state is tick (the first timer
\* subscribed): no other timer reducer is ever applied to a not-started state.
C14_NoStaleFiringAfterRestart ==
    last.op \in {"spawn", "move", "star", "skull", "ghost"} => prev.gameStart

\* C15: pause flips gamePause in every state, changes no other field, and
\* applied twice in succession gives back the original state.
C15_PauseFlipsOnlyFlag ==
    last.op = "pause"
    => (/\ s.gamePause = ~prev.gamePause
        /\ [s EXCEPT !.gamePause = prev.gamePause] = prev
        /\ pauseToggle(s) = prev)

C15_Witness == last.op = "pause" /\ prev.gameEnd /\ prev.gamePause

\* C16: a tick applied to a playing, not-invulnerable state takes at most one
\* life, also when the avatar overlaps a top and a bottom segment at once.
C16_AtMostOneLifePerTick ==
    (last.op = "tick" /\ playing(prev) /\ ~prev.resume)
    => (s.lives >= prev.lives - 1 /\ s.lives <= prev.lives)

C16_Witness ==
    /\ last.op = "tick" /\ playing(prev) /\ ~prev.resume /\ ~won(prev)
    /\ \A i \in 1..Len(prev.pipes) : numericGap(prev.pipes[i])
    /\ hitTopPipe(prev) /\ hitBottomPipe(prev)
    /\ s.lives = prev.lives - 1

\* C17: a tick applied to an invulnerable state that still overlaps a segment
\* or a bound takes no life and sets no bounce velocity: it integrates position
\* and velocity and stays invulnerable.  A tick applied to a playing state (not
\* yet at the target score) with no overlap integrates position and velocity
\* and clears invulnerability.
integrated(before, after) ==
    /\ after.position = before.position + before.velocity
    /\ after.velocity = before.velocity + GRAVITY
    /\ after.lives = before.lives
    /\ after.time = before.time + TICK_RATE_MS

C17_Grace ==
    (last.op = "tick" /\ playing(prev) /\ ~won(prev))
    => (/\ (prev.resume /\ (hit_top(prev) \/ hit_bottom(prev)))
              => (integrated(prev, s) /\ s.resume)
        /\ (~hit_top(prev) /\ ~hit_bottom(prev))
              => (integrated(prev, s) /\ ~s.resume))

C17_Witness ==
    /\ last.op = "tick" /\ playing(prev) /\ ~won(prev)
    /\ prev.resume /\ hitBottomPipe(prev) /\ s.resume /\ s.lives = prev.lives

\* C18 as stated: on a new collision the bounce velocity is negative (upward)
\* after a hit against a top surface and positive (downward) after a hit
\* against a bottom surface.
newHit(st) == playing(st) /\ ~won(st) /\ ~st.resume

C18_BounceTowardsSurface ==
    (last.op = "tick" /\ newHit(prev))
    => (/\ (hit_top(prev) /\ ~hit_bottom(prev)) => s.velocity < 0
        /\ (hit_bottom(prev) /\ ~hit_top(prev)) => s.velocity > 0)

\* C18 as amended: on a new collision the bounce velocity is drawn from the
\* pre-tick seed and lies in the positive (downward) range 3..10 after a hit
\* against a top surface, and in the negative (upward) range -10..-3 after a
\* hit against a bottom surface only.
C18_BounceAwayFromSurface ==
    (last.op = "tick" /\ newHit(prev))
    => (/\ hit_top(prev) =>
              (s.velocity = generateRandom(3, 10, prev.seed)
               /\ s.velocity >= 3 /\ s.velocity <= 10)
        /\ (hit_bottom(prev) /\ ~hit_top(prev)) =>
              (s.velocity = generateRandom(-10, -3, prev.seed)
               /\ s.velocity >= -10 /\ s.velocity <= -3))

C18_Witness ==
    /\ last.op = "tick" /\ newHit(prev) /\ hitTopPipe(prev) /\ ~hit_bottom(prev)
    /\ s.velocity > 0

\* C19: isOverlap is symmetric: for the avatar's box and the box of a top
\* segment (with numeric fields), the result does not depend on the order of
\* the two arguments.
topBox(p) == createBox(p.x, 0, PIPE_WIDTH, TopHeight(p))

C19_OverlapSymmetric ==
    \A i \in 1..Len(s.pipes) :
        numericGap(s.pipes[i])
        => isOverlap(birdBox(s), topBox(s.pipes[i])) = isOverlap(topBox(s.pipes[i]), birdBox(s))

\* C20: executions from the same initial snapshot fed the same transformations
\* have the same trajectory, and each seed is a function of the previous seed
\* only.  The seed after n time steps is the n-th iterate of hash on SEED in
\* every execution, whatever the course and the keys; only a time step of tick
\* changes it; and a run after a restart that is fed the same key presses
\* retraces, sample by sample, the trail of the run before.
\* the n >= 1 seeds that follow seed
RECURSIVE Iterates(_, _)
Iterates(seed, n) ==
    IF n = 1 THEN <<hash(seed)>>
    ELSE CHOOSE all \in {first \o Iterates(first[Len(first)], n - (n \div 2)) :
                            first \in {Iterates(seed, n \div 2)}} : TRUE

Seeds == <<SEED>> \o Iterates(SEED, MaxTicks + 2)

C20_Determinism ==
    /\ s.seed = Seeds[(s.time \div TICK_RATE_MS) + 1]
    /\ (last.op = "tick" /\ s.time # prev.time) => s.seed = hash(prev.seed)
    /\ (last.op = "tick" /\ s.time = prev.time) => s.seed = prev.seed
    /\ last.op \notin {"tick", "restart", "init"} => s.seed = prev.seed
    /\ (last.op = "ghost" /\ Len(s.ghosts) > Len(prev.ghosts))
          => \A i \in 1..Len(s.ghosts) :
                s.ghosts[i].time = s.ghosts[Len(s.ghosts)].time
                => s.ghosts[i].y = s.ghosts[Len(s.ghosts)].y

C20_Witness ==
    /\ last.op = "ghost" /\ Len(s.ghosts) > Len(prev.ghosts)
    /\ s.run > 1 /\ s.time >= 1000 /\ s.seed # SEED
    /\ \E i \in 1..Len(s.ghosts) :
          /\ s.ghosts[i].run = 1
          /\ s.ghosts[i].time = s.ghosts[Len(s.ghosts)].time

\* C21: hash(seed) lies in [0, 2^31), scale(hash(seed)) in [-1, 1] and
\* generateRandom(min, max, seed) in [min, max]; the seed field stays in
\* [0, 2^31) in every reachable state.  Checked for the seed of every reachable
\* state and its successor seed + 1, over the ranges the game draws from.
InRange(v, min, max) == v >= min /\ v <= max

DrawRanges == {<<-10, -3>>, <<3, 10>>, <<50, CANVAS_WIDTH>>, <<50, CANVAS_HEIGHT>>, <<0, 0>>}

C21_RandomInRange ==
    /\ InRange(s.seed, 0, 2147483647)
    /\ (last.op = "tick" /\ s.time # prev.time) =>
          /\ \A inc \in {0, 1} :
                /\ InRange(HashInc(s.seed, inc), 0, 2147483647)
                /\ InRange(scaleNum(HashInc(s.seed, inc)), -2147483647, 2147483647)
                /\ \A r \in DrawRanges :
                      InRange(generateRandomInc(r[1], r[2], s.seed, inc), r[1], r[2])
    /\ (last.op = "star" /\ s.starx # prev.starx /\ s.starx # -100 /\ s.starx # prev.starx - 10) =>
          (InRange(s.starx, 50, CANVAS_WIDTH) /\ InRange(s.stary, 50, CANVAS_HEIGHT))
    /\ (last.op = "skull" /\ s.skullx # prev.skullx /\ s.skullx # -100 /\ s.skullx # prev.skullx - 10) =>
          (InRange(s.skullx, 50, CANVAS_WIDTH) /\ InRange(s.skully, 50, CANVAS_HEIGHT))

C21_Witness ==
    /\ last.op = "skull" /\ playing(prev) /\ prev.time % 10000 = 2000
    /\ prev.seed > 1073741824
    /\ s.skullx = generateRandom(50, CANVAS_WIDTH, prev.seed)
    /\ s.skullx > 50

\* C22: the bonus reducer raises lives only by exactly 1, only when the avatar
\* is within the radius on a playing, not-invulnerable state, and then moves
\* the bonus off-screen; an off-screen bonus grants nothing and stays
\* off-screen until the scheduled relocation (time % 10000 = 3000), and no
\* other reducer of the run moves the bonus.
C22_BonusOncePerAppearance ==
    /\ (last.op = "star" /\ s.lives # prev.lives) =>
          /\ s.lives = prev.lives + 1
          /\ playing(prev) /\ ~prev.resume /\ near(prev.starx, prev.stary, prev)
          /\ s.starx = -100
    /\ (last.op = "star" /\ prev.starx < 0) =>
          /\ s.lives = prev.lives
          /\ s.starx < 0 \/ prev.time % 10000 = 3000
    /\ last.op \notin {"star", "restart", "init"} =>
          (s.starx = prev.starx /\ s.stary = prev.stary)

C22_Witness ==
    /\ last.op = "star" /\ playing(prev) /\ ~prev.resume
    /\ prev.starx = -100 /\ prev.lives = 4 /\ prev.time > 3000
    /\ s.lives = 4 /\ s.starx < -100

\* C23: the bonus and hazard reducers return the state unchanged whenever the
\* game is not started, is paused, or is ended.
C23_BonusHazardFrozen ==
    (last.op \in {"star", "skull"} /\ (~prev.gameStart \/ prev.gamePause \/ prev.gameEnd))
    => s = prev

C23_Witness ==
    /\ last.op = "skull" /\ prev.gameStart /\ prev.gamePause /\ ~prev.gameEnd
    /\ prev.skullx > 0 /\ s.skullx = prev.skullx

\* C24: the trail is append-only over every step, restart included: the trail
\* before the step is a prefix of the trail after it; and it grows only by
\* the trail reducer, on a started, unpaused, not-ended state, by one sample
\* (elapsed time, position, run of that state).
C24_TrailAppendOnly ==
    /\ Len(s.ghosts) >= Len(prev.ghosts)
    /\ SubSeq(s.ghosts, 1, Len(prev.ghosts)) = prev.ghosts
    /\ Len(s.ghosts) > Len(prev.ghosts) =>
          /\ last.op = "ghost" /\ playing(prev)
          /\ s.ghosts = Append(prev.ghosts,
                               [time |-> prev.time, y |-> prev.position, run |-> prev.run])

C24_Witness ==
    /\ last.op = "ghost" /\ Len(s.ghosts) = Len(prev.ghosts) + 1
    /\ s.run = 2 /\ Len(prev.ghosts) > 0 /\ prev.ghosts[1].run = 1
    /\ s.ghosts[Len(s.ghosts)].run = 2

\* C25: once gameEnd is true it stays true, and position, velocity, lives,
\* score, seed and time no longer change under any reducer other than restart;
\* gameEnd never holds while gameStart is false.
C25_EndedIsTerminal ==
    /\ s.gameEnd => s.gameStart
    /\ (prev.gameEnd /\ last.op \notin {"restart", "init"}) =>
          /\ s.gameEnd
          /\ s.position = prev.position /\ s.velocity = prev.velocity
          /\ s.lives = prev.lives /\ s.score = prev.score
          /\ s.seed = prev.seed /\ s.time = prev.time

C25_Witness == last.op = "jump" /\ prev.gameEnd /\ prev.fullScore > 0 /\ s = prev

\* C26: within a run time never decreases, only tick changes it, and every
\* tick that integrates physics or registers a collision adds exactly
\* TICK_RATE_MS.
C26_ClockMonotonic ==
    /\ last.op \notin {"restart", "init"} => s.time >= prev.time
    /\ last.op \notin {"tick", "restart", "init"} => s.time = prev.time
    /\ (last.op = "tick" /\ playing(prev) /\ ~won(prev)) =>
          s.time = prev.time + TICK_RATE_MS
    /\ (last.op = "tick" /\ s.time # prev.time) => s.time = prev.time + TICK_RATE_MS

C26_Witness ==
    /\ last.op = "tick" /\ newHit(prev) /\ hit_bottom(prev) /\ ~hit_top(prev)
    /\ s.lives = prev.lives - 1 /\ s.time = prev.time + TICK_RATE_MS

\* C27: every tick applied to a started, unpaused, not-ended state whose score
\* has not met the target gives position + velocity, hash(seed),
\* time + TICK_RATE_MS, and velocity + GRAVITY unless a new collision in that
\* tick sets the bounce velocity.
C27_TickIntegrates ==
    (last.op = "tick" /\ playing(prev) /\ ~won(prev))
    => (/\ s.position = prev.position + prev.velocity
        /\ s.seed = hash(prev.seed)
        /\ s.time = prev.time + TICK_RATE_MS
        /\ s.velocity = prev.velocity + GRAVITY
              \/ (~prev.resume /\ (hit_top(prev) \/ hit_bottom(prev))))

\* C28: with no obstacle on screen, a tick applied to a playing,
\* not-invulnerable state whose position equals GROUND takes the bottom
\* collision (one life, invulnerable, upward bounce), and one whose position
\* equals CEILING takes the top collision.
C28_InclusiveBounds ==
    (last.op = "tick" /\ newHit(prev) /\ Len(prev.pipes) = 0)
    => (/\ prev.position = GROUND =>
              /\ s.lives = prev.lives - 1 /\ s.resume
              /\ s.velocity = generateRandom(-10, -3, prev.seed)
        /\ prev.position = CEILING =>
              /\ s.lives = prev.lives - 1 /\ s.resume
              /\ s.velocity = generateRandom(3, 10, prev.seed))

C28_Witness ==
    /\ last.op = "tick" /\ newHit(prev) /\ Len(prev.pipes) = 0
    /\ prev.position = GROUND /\ prev.lives = 3 /\ s.lives = 2 /\ s.resume

\* C29: when a new collision overlaps a top surface and a bottom surface in the
\* same tick, the state is the top-collision outcome.
C29_TopTakesPriority ==
    (last.op = "tick" /\ newHit(prev) /\ hit_top(prev) /\ hit_bottom(prev))
    => (/\ s.velocity = generateRandom(3, 10, prev.seed)
        /\ s.lives = prev.lives - 1
        /\ s.resume /\ s.position = prev.position)

C29_Witness ==
    /\ last.op = "tick" /\ newHit(prev) /\ hitTopPipe(prev) /\ hitBottomPipe(prev)
    /\ \A i \in 1..Len(prev.pipes) : numericGap(prev.pipes[i])
    /\ s.velocity >= 3

\* C30: in a course with target score 3, a tick applied to a started state with
\* score 3 and lives > 0 gives gameEnd = TRUE and leaves lives unchanged.
C30_WinScenario ==
    (last.op = "tick" /\ prev.gameStart /\ prev.fullScore = 3 /\ prev.score = 3
       /\ prev.lives > 0)
    => (s.gameEnd /\ s.lives = prev.lives /\ s.lives > 0)

C30_Witness ==
    /\ last.op = "tick" /\ prev.gameStart /\ ~prev.gameEnd
    /\ prev.fullScore = 3 /\ Len(prev.all_pipes) = 3 /\ prev.score = 3
    /\ prev.lives > 0 /\ s.gameEnd

\* C31: within a run the x of every injected obstacle never increases from one
\* state to the next; a movePipes step on a playing state lowers each x by
\* exactly PIPE_SPEED, and no other reducer changes any x.
C31_ObstaclesMoveLeft ==
    last.op \notin {"restart", "init"} =>
        /\ Len(s.all_pipes) >= Len(prev.all_pipes)
        /\ \A i \in 1..Len(prev.all_pipes) :
              /\ s.all_pipes[i].x <= prev.all_pipes[i].x
              /\ (last.op = "move" /\ playing(prev)) =>
                     s.all_pipes[i].x = prev.all_pipes[i].x - PIPE_SPEED
              /\ last.op # "move" => s.all_pipes[i].x = prev.all_pipes[i].x

C31_Witness ==
    /\ last.op = "move" /\ playing(prev) /\ Len(prev.all_pipes) = 3
    /\ \E i \in 1..3 : prev.all_pipes[i].x <= -PIPE_WIDTH
                          /\ s.all_pipes[i].x = prev.all_pipes[i].x - PIPE_SPEED
    /\ \E i \in 1..3 : prev.all_pipes[i].x > -PIPE_WIDTH

\* C32: in every state with gameEnd = TRUE the score equals the sum of the
\* weights of all course entries, so no run ends before fullScore is derived.
C32_EndedOnlyAtCourseTarget ==
    s.gameEnd => s.score = courseWeight(pipe_array)

\* C33: after a new collision with the ground or the ceiling the avatar
\* eventually returns inside the playfield and leaves the invulnerable mode.
\* While resume is set jump$ has no effect and tick only adds GRAVITY to the
\* velocity, so a playing state that is invulnerable at or below GROUND with a
\* velocity that no longer points upward can never return: the property requires
\* that no such state is reached.
sinking(st) == st.resume /\ st.position >= GROUND /\ st.velocity >= 0

C33_BounceReturns == ~(playing(s) /\ sinking(s))

\* C34: for a course whose entries are well-formed and pairwise distinct, every
\* run reaches gameEnd unless a pause is left set: a run that is not ended
\* leads to gameEnd (or to a pause, or to the end of the modelled time), and a
\* run that is not ended has not run past the time at which the last entry,
\* injected at its delay, has crossed the screen (a pause can make movePipes$
\* miss one period that tick$ has counted).
wellFormed(entry) ==
    ~IsNaN(entry.gapY) /\ ~IsNaN(entry.gapHeight) /\ ~IsNaN(entry.delay)

properCourse(pa) ==
    /\ \A i \in 1..Len(pa) : wellFormed(pa[i])
    /\ \A i, j \in 1..Len(pa) : i # j => ~sameEntry(pa[i], pa[j])

lastDelay(pa) == CHOOSE d \in {pa[i].delay : i \in 1..Len(pa)} :
                    \A i \in 1..Len(pa) : pa[i].delay <= d

travelMoves == (CANVAS_WIDTH - PIPE_WIDTH) \div PIPE_SPEED + 1

deadline(pa) == lastDelay(pa) * 1000 + (travelMoves + 1) * TICK_RATE_MS

C34_EveryRunEnds ==
    /\ [](properCourse(pipe_array) /\ ~s.gameEnd
            => s.time <= deadline(pipe_array) + presses.pause * TICK_RATE_MS)
    /\ (properCourse(pipe_array) /\ ~s.gameEnd)
          ~> (s.gameEnd \/ s.gamePause \/ s.time >= MaxTime)

C34_Witness ==
    /\ last.op = "tick" /\ s.gameEnd /\ ~prev.gameEnd /\ properCourse(pipe_array)
    /\ Len(pipe_array) = 2 /\ s.lives <= 0
    /\ s.time = deadline(pipe_array) - TICK_RATE_MS
    /\ s.score = courseWeight(pipe_array)

\* C35: in every reachable state score <= fullScore.
C35_ScoreWithinTarget == s.score <= s.fullScore

\* C35 (amended): for a course whose entries are all numeric, score <= fullScore
\* in every reachable state.
C35_ScoreWithinTargetNumeric ==
    (\A i \in 1..Len(pipe_array) : wellFormed(pipe_array[i])) => s.score <= s.fullScore

C35_Witness ==
    /\ \A i \in 1..Len(pipe_array) : wellFormed(pipe_array[i])
    /\ last.op = "move" /\ prev.score = 2 /\ s.score = 3 /\ s.fullScore = 3
    /\ Len(pipe_array) = 2 /\ ~s.gameEnd

\* C36: an obstacle is appended only by the spawn reducer of its entry, only in
\* a state that is neither paused nor ended and whose time is at least the
\* entry's delay * 1000; the appended obstacle has x = CANVAS_WIDTH and the
\* entry's gapY, gapHeight, delay and weight, and every obstacle injected
\* before, like the rest of the state, is unchanged.
C36_SpawnAppends ==
    (last.op \notin {"restart", "init"} /\ Len(s.all_pipes) # Len(prev.all_pipes))
    => (/\ last.op = "spawn"
        /\ ~prev.gamePause /\ ~prev.gameEnd
        /\ prev.time >= pipe_array[last.arg].delay * 1000
        /\ s = [prev EXCEPT !.all_pipes =
                   Append(prev.all_pipes,
                          [gapY |-> pipe_array[last.arg].gapY,
                           gapHeight |-> pipe_array[last.arg].gapHeight,
                           delay |-> pipe_array[last.arg].delay,
                           x |-> CANVAS_WIDTH,
                           special |-> pipe_array[last.arg].special])]
        /\ Weight(s.all_pipes[Len(s.all_pipes)]) = Weight(pipe_array[last.arg]))

C36_Witness ==
    /\ last.op = "spawn" /\ last.arg = 2 /\ Len(pipe_array) = 2
    /\ Len(prev.all_pipes) = 1 /\ Len(s.all_pipes) = 2
    /\ prev.time = pipe_array[2].delay * 1000 /\ prev.time > 0
    /\ prev.all_pipes[1].x < CANVAS_WIDTH /\ s.all_pipes[1] = prev.all_pipes[1]
    /\ s.all_pipes[2].x = CANVAS_WIDTH

\* C37: only tick (and restart, which resets them) changes seed and time: the
\* spawn, move, star, skull, ghost, jump and pause reducers leave both
\* unchanged, and one tick leaves seed as it is or sets it to hash(seed).
C37_OnlyTickAdvancesSeed ==
    /\ last.op \in {"spawn", "move", "star", "skull", "ghost", "jump", "pause"}
          => (s.seed = prev.seed /\ s.time = prev.time)
    /\ last.op = "tick" => (s.seed = prev.seed \/ s.seed = hash(prev.seed))

C37_Witness ==
    /\ last.op = "star" /\ playing(prev) /\ prev.time = 3000
    /\ s.starx # prev.starx /\ s.stary # prev.stary
    /\ s.starx = generateRandom(50, CANVAS_WIDTH, s.seed)
    /\ s.seed = prev.seed /\ s.seed # SEED

(***************************************************************************)
(* The variant of src/unnamed/part_000: a collision starts a revival, in    *)
(* which the bird moves without constraints until it has left the screen;   *)
(* pipes$, movePipes$, star$, skull$, jump$ and pause$ are those of the     *)
(* latest variant, there is no ghost$, and R restarts the whole fold.       *)
(***************************************************************************)
invisible(st) ==
    \/ st.position + st.velocity > GROUND + 50
    \/ st.position + st.velocity < CEILING - 50

revived_fromScratch(st) ==
    [initialState EXCEPT !.seed = hash(st.seed), !.gameStart = TRUE]

revived(st) ==
    [initialState EXCEPT !.lives = st.lives,
                         !.seed = hash(st.seed),
                         !.resume = FALSE,
                         !.gameStart = TRUE,
                         !.pipes = st.pipes,
                         !.score = st.score,
                         !.all_pipes = st.all_pipes,
                         !.fullScore = st.fullScore]

flying(st) ==
    [st EXCEPT !.position = st.position + st.velocity,
              !.velocity = st.velocity + GRAVITY,
              !.seed = hash(st.seed),
              !.time = st.time + TICK_RATE_MS]

revival(st) ==
    IF invisible(st)
    THEN IF st.lives > 0 THEN revived(st) ELSE [st EXCEPT !.gameEnd = TRUE]
    ELSE flying(st)

tick0(st) ==
    IF ~st.gameStart THEN [st EXCEPT !.gameStart = TRUE]
    ELSE IF st.gameStart /\ st.score = st.fullScore THEN [st EXCEPT !.gameEnd = TRUE]
    ELSE IF st.gamePause \/ st.gameEnd THEN st
    ELSE IF st.resume THEN revival(st)
    ELSE IF hitTopPipe(st) THEN hit_top_state(st)
    ELSE IF hitBottomPipe(st) THEN hit_bottom_state(st)
    ELSE IF st.position + st.velocity >= GROUND THEN hit_bottom_state(st)
    ELSE IF st.position + st.velocity <= CEILING THEN hit_top_state(st)
    ELSE flying(st)

\* restart$.pipe(startWith(null), switchMap(...scan(..., initialState)))
restart0(st) == initialState

NextSlot0 == IF pc >= SkullSlot THEN TickSlot ELSE pc + 1

Timer0(slot, next, name, arg) ==
    /\ pc = slot
    /\ pc' = NextSlot0
    /\ Apply(next, name, arg)
    /\ UNCHANGED presses

Tick0 ==
    /\ s.time < MaxTime
    /\ s.time \in script.jumps => jumped
    /\ Timer0(TickSlot, tick0(s), "tick", 0)
    /\ jumped' = FALSE
    /\ UNCHANGED scored

Spawn0 ==
    /\ pc \in SpawnSlots
    /\ Timer0(pc, spawn(pipe_array, pipe_array[pc - 1], s), "spawn", pc - 1)
    /\ UNCHANGED <<jumped, scored>>

MovePipes0 ==
    /\ \A i \in 1..Len(s.all_pipes) : s.all_pipes[i].x > -MaxPipeLeft
    /\ Timer0(MoveSlot, movePipes(s), "move", 0)
    /\ scored' = IF moveFrozen(s) \/ s.gameEnd THEN scored ELSE countedPipes(s)
    /\ UNCHANGED jumped

Star0 ==
    /\ Timer0(StarSlot, star(s), "star", 0)
    /\ UNCHANGED <<jumped, scored>>

Skull0 ==
    /\ Timer0(SkullSlot, skull(s), "skull", 0)
    /\ UNCHANGED <<jumped, scored>>

\* switchMap unsubscribes the timers of the old run and subscribes new ones
Restart0 ==
    /\ s.time \in script.restarts
    /\ presses.restart < MaxRestarts
    /\ Apply(restart0(s), "restart", 0)
    /\ presses' = [presses EXCEPT !.restart = @ + 1]
    /\ pc' = TickSlot
    /\ jumped' = FALSE
    /\ scored' = {}

Next0 == Tick0 \/ Spawn0 \/ MovePipes0 \/ Star0 \/ Skull0 \/ Jump \/ Pause \/ Restart0

Spec0 == Init /\ [][Next0]_vars

\* C38: in the variant of part_000, a tick on a playing state below the target
\* with resume set and the next position more than 50 beyond GROUND or CEILING
\* gives, when lives > 0, the initial position and velocity with resume cleared
\* and gameStart set, and keeps lives, score, fullScore, pipes and all_pipes;
\* when lives = 0 it sets gameEnd; any other tick with resume set only
\* integrates position, velocity, seed and time, with no life lost.
C38_Revival ==
    (last.op = "tick" /\ playing(prev) /\ prev.score # prev.fullScore /\ prev.resume)
    => (/\ prev.lives >= 0
        /\ (invisible(prev) /\ prev.lives > 0) =>
              /\ s.position = initialState.position
              /\ s.velocity = initialState.velocity
              /\ ~s.resume /\ s.gameStart /\ ~s.gameEnd
              /\ s.lives = prev.lives /\ s.score = prev.score
              /\ s.fullScore = prev.fullScore
              /\ s.pipes = prev.pipes /\ s.all_pipes = prev.all_pipes
        /\ (invisible(prev) /\ prev.lives = 0) => s = [prev EXCEPT !.gameEnd = TRUE]
        /\ ~invisible(prev) =>
              s = [prev EXCEPT !.position = prev.position + prev.velocity,
                               !.velocity = prev.velocity + GRAVITY,
                               !.seed = hash(prev.seed),
                               !.time = prev.time + TICK_RATE_MS])

C38_Witness ==
    /\ last.op = "tick" /\ playing(prev) /\ prev.resume /\ invisible(prev)
    /\ prev.lives = 2 /\ prev.position > GROUND /\ Len(prev.pipes) > 0
    /\ s.position = initialState.position /\ s.lives = 2 /\ ~s.resume
    /\ s.all_pipes = prev.all_pipes

\* C39: in the variant of part_000, time never decreases over the ticks of a
\* run, whichever branch of tick is taken.
C39_ClockMonotonic0 == last.op = "tick" => s.time >= prev.time

====
